---- MODULE Spec2Model ----
(***************************************************************************)
(* Constraint propagators of the CSP solver: prop_BT, prop_FC and prop_FI  *)
(* (propagators.py), run on CSP instances built the way puzzle_csp.py      *)
(* builds them.  The Variable / Constraint / CSP classes (cspbase) are     *)
(* modelled from the design document: a variable has a current domain (a   *)
(* set) and an assigned-value slot, a constraint an ordered scope and a    *)
(* set of satisfying tuples.                                               *)
(***************************************************************************)
EXTENDS Integers, Sequences, FiniteSets, TLC

\* Grid size n of the puzzle: every variable's domain is 1..n.
MaxVal == 3

\* newVar=None, and get_assigned_value() of an unassigned variable.
None == "None"
NoVal == 0

\* dom = list(range(1, n+1))
Dom == 1 .. MaxVal

Range(q) == {q[i] : i \in 1 .. Len(q)}

Reverse(q) == [i \in 1 .. Len(q) |-> q[Len(q) + 1 - i]]

RECURSIVE SumTuple(_)
SumTuple(t) == IF t = <<>> THEN 0 ELSE Head(t) + SumTuple(Tail(t))

Tuples(k) == [1 .. k -> Dom]

-----------------------------------------------------------------------------
(* Constraints as puzzle_csp.py builds them: a scope and satisfying tuples *)

\* binary not-equal constraint of a row or a column
NotEqual(a, b) ==
    [scope |-> <<a, b>>, sat |-> {t \in Tuples(2) : t[1] # t[2]}]

\* one-cell cage: the cell must hold the target value
UnaryCage(a, target) ==
    [scope |-> <<a>>, sat |-> {<<target>>}]

\* addition cage: the cells must sum to cage_res
AddCage(cage_vars, cage_res) ==
    [scope |-> cage_vars,
     sat |-> {t \in Tuples(Len(cage_vars)) : SumTuple(t) = cage_res}]

\* multiplication cage: the cells must multiply to cage_res
RECURSIVE ProdTuple(_)
ProdTuple(t) == IF t = <<>> THEN 1 ELSE Head(t) * ProdTuple(Tail(t))

MulCage(cage_vars, cage_res) ==
    [scope |-> cage_vars,
     sat |-> {t \in Tuples(Len(cage_vars)) : ProdTuple(t) = cage_res}]

\* The CSP instances explored: variables in get_all_vars() order and
\* constraints in add_constraint() order.
Instances ==
    { [vars |-> <<"X", "Y", "Z">>,
       cons |-> <<NotEqual("X", "Y"), NotEqual("X", "Z"), NotEqual("Y", "Z")>>],
      [vars |-> <<"X", "Y">>,
       cons |-> <<AddCage(<<"X", "Y">>, 3)>>],
      [vars |-> <<"X", "Y">>,
       cons |-> <<NotEqual("X", "Y"), UnaryCage("X", 2)>>],
      [vars |-> <<"X", "Y", "Z">>,
       cons |-> <<NotEqual("Y", "Z"), AddCage(<<"X", "Y", "Z">>, 5)>>],
      [vars |-> <<"X", "Y", "Z">>,
       cons |-> <<MulCage(<<"X", "Y", "Z">>, 4), NotEqual("X", "Y")>>] }

-----------------------------------------------------------------------------
VARIABLES
    csp,        \* the CSP instance (read-only during propagation)
    curdom,     \* curdom[v]: current domain of variable v
    assigned,   \* assigned[v]: assigned value of v, NoVal if unassigned
    prop,       \* the propagator called: "BT", "FC" or "FI"
    newVar,     \* the trigger variable, or None
    pc,         \* position in the propagator's code
    ok,         \* the returned verdict (meaningful when pc = "done")
    pruned,     \* the pruning trace: sequence of <<variable, value>>
    queue,      \* prop_FI: the worklist
    w,          \* prop_FI: the variable popped from the worklist
    work,       \* prop_FI: the <<constraint, v>> revisions left for w
    cons,       \* prop_FC: the constraints left to look at
    todo,       \* values of the cur_domain() snapshot still to visit
    s,          \* prop_FI: v.cur_domain_size() before the revision
    pre,        \* history: the current domains when the call started
    call,       \* history: 1 for the first call, 2 for a following call
    prevOk,     \* history: the verdict of the first call
    prevPruned, \* history: the trace of the first call
    owed        \* history: variables that lost a value and whose constraints
                \* have not all been revised since

vars == <<csp, curdom, assigned, prop, newVar, pc, ok, pruned, queue, w,
          work, cons, todo, s, pre, call, prevOk, prevPruned, owed>>

VarSet == Range(csp.vars)

-----------------------------------------------------------------------------
(* Domain Store and Constraint Evaluator                                   *)

cur_domain(v) == curdom[v]

cur_domain_size(v) == Cardinality(curdom[v])

get_assigned_value(v) == assigned[v]

\* removes the value from the current domain
prune_value(dom, v, d) == [dom EXCEPT ![v] = @ \ {d}]

\* reinserts a previously pruned value
restore_value(dom, v, d) == [dom EXCEPT ![v] = @ \cup {d}]

get_scope(c) == c.scope

get_unasgn_vars(c) ==
    SelectSeq(c.scope, LAMBDA x : assigned[x] = NoVal)

get_n_unasgn(c) == Len(get_unasgn_vars(c))

\* the tuple, positionally aligned with the scope, satisfies the predicate
check(c, vals) == vals \in c.sat

\* some satisfying tuple has d at v's position and, at every other
\* position, a value of that variable's current domain
has_support(c, v, d) ==
    \E t \in c.sat :
        \A i \in 1 .. Len(c.scope) :
            IF c.scope[i] = v THEN t[i] = d ELSE t[i] \in curdom[c.scope[i]]

\* indices (in add order) of the constraints whose scope contains v
get_cons_with_var(v) ==
    SelectSeq([i \in 1 .. Len(csp.cons) |-> i],
              LAMBDA i : v \in Range(csp.cons[i].scope))

get_all_cons == [i \in 1 .. Len(csp.cons) |-> i]

get_all_vars == csp.vars

-----------------------------------------------------------------------------
(* The state a propagator is called in                                     *)

\* An assigned variable holds one value and that value is its current
\* domain; an unassigned variable has any subset of its domain left.
PreState ==
    /\ csp \in Instances
    /\ assigned \in [VarSet -> Dom \cup {NoVal}]
    /\ curdom \in [VarSet -> SUBSET Dom]
    /\ \A v \in VarSet : assigned[v] # NoVal => curdom[v] = {assigned[v]}
    /\ newVar \in {None} \cup {v \in VarSet : assigned[v] # NoVal}
    /\ pre = curdom
    /\ call = 1
    /\ prevOk = TRUE
    /\ prevPruned = <<>>
    /\ owed = {}

\* every constraint taken, whatever the trigger
FC_Constraints_All == get_all_cons

\* prop_FC: the relevant constraints
FC_Constraints ==
    IF newVar = None THEN get_all_cons ELSE get_cons_with_var(newVar)

\* prop_FI: the initial worklist
FI_Queue ==
    IF newVar = None THEN get_all_vars ELSE <<newVar>>

\* Entry of propagator p: its locals before the first loop iteration.
Enter(p) ==
    /\ prop = p
    /\ pc = CASE p = "BT" -> "BT" [] p = "FC" -> "FC_for_c" [] p = "FI" -> "FI_while"
    /\ ok = TRUE
    /\ pruned = <<>>
    /\ queue = IF p = "FI" THEN FI_Queue ELSE <<>>
    /\ cons = IF p = "FC" THEN FC_Constraints ELSE <<>>
    /\ w = None
    /\ work = <<>>
    /\ todo = {}
    /\ s = 0

Init == PreState /\ \E p \in {"BT", "FC", "FI"} : Enter(p)

-----------------------------------------------------------------------------
(* prop_BT                                                                 *)

\* the values assigned to the scope of c, in scope order
BT_Vals(c) == [i \in 1 .. Len(get_scope(c)) |-> get_assigned_value(get_scope(c)[i])]

\* the check made of every constraint with newVar, fully assigned or not
BT_Violated_NoGuard ==
    \E k \in Range(get_cons_with_var(newVar)) :
        ~check(csp.cons[k], BT_Vals(csp.cons[k]))

\* a constraint with newVar that is fully assigned and violated
BT_Violated ==
    \E k \in Range(get_cons_with_var(newVar)) :
        /\ get_n_unasgn(csp.cons[k]) = 0
        /\ ~check(csp.cons[k], BT_Vals(csp.cons[k]))

BT_Result == IF newVar = None THEN TRUE ELSE ~BT_Violated

\* prop_BT pruning the value that violates a constraint
prop_BT_Prunes ==
    /\ pc = "BT"
    /\ ok' = BT_Result
    /\ pc' = "done"
    /\ IF BT_Result
       THEN UNCHANGED <<curdom, pruned>>
       ELSE /\ curdom' = prune_value(curdom, newVar, assigned[newVar])
            /\ pruned' = <<<<newVar, assigned[newVar]>>>>
    /\ UNCHANGED <<csp, assigned, prop, newVar, queue, w,
                   work, cons, todo, s, pre, call, prevOk, prevPruned, owed>>

prop_BT ==
    /\ pc = "BT"
    /\ ok' = BT_Result
    /\ pc' = "done"
    /\ UNCHANGED <<csp, curdom, assigned, prop, newVar, pruned, queue, w,
                   work, cons, todo, s, pre, call, prevOk, prevPruned, owed>>

-----------------------------------------------------------------------------
(* prop_FC                                                                 *)

FC_uvar(c) == get_unasgn_vars(c)[1]

\* the tuple checked for value val of uvar: val at uvar's position, the
\* assigned value at every other position
FC_Tuple(c, uvar, val) ==
    [i \in 1 .. Len(get_scope(c)) |->
        IF get_scope(c)[i] = uvar THEN val
        ELSE get_assigned_value(get_scope(c)[i])]

FC_Eligible(c) == get_n_unasgn(c) = 1

\* pruned.append((uvar, val))
FC_Append(trace, uvar, val) == Append(trace, <<uvar, val>>)

\* for c in constraints: if c.get_n_unasgn() == 1: ... for val in uvar.cur_domain()
FC_NextCons ==
    /\ pc = "FC_for_c"
    /\ cons # <<>>
    /\ LET c == csp.cons[Head(cons)] IN
         IF FC_Eligible(c)
         THEN /\ todo' = cur_domain(FC_uvar(c))
              /\ pc' = "FC_for_val"
              /\ cons' = cons
         ELSE /\ cons' = Tail(cons)
              /\ UNCHANGED <<todo, pc>>
    /\ UNCHANGED <<csp, curdom, assigned, prop, newVar, ok, pruned, queue, w,
                   work, s, pre, call, prevOk, prevPruned, owed>>

\* one iteration of the loop over uvar's values
FC_Value ==
    /\ pc = "FC_for_val"
    /\ \E val \in todo :
         LET c == csp.cons[Head(cons)]
             uvar == FC_uvar(c)
         IN /\ todo' = todo \ {val}
            /\ IF ~check(c, FC_Tuple(c, uvar, val))
               THEN /\ pruned' = FC_Append(pruned, uvar, val)
                    /\ curdom' = prune_value(curdom, uvar, val)
               ELSE UNCHANGED <<pruned, curdom>>
    /\ UNCHANGED <<csp, assigned, prop, newVar, pc, ok, queue, w, work, cons,
                   s, pre, call, prevOk, prevPruned, owed>>

\* the next constraint taken without the test of uvar's size
FC_EndCons_NoTest ==
    /\ pc = "FC_for_val"
    /\ todo = {}
    /\ pc' = "FC_for_c"
    /\ cons' = Tail(cons)
    /\ UNCHANGED <<csp, curdom, assigned, prop, newVar, ok, pruned, queue, w,
                   work, todo, s, pre, call, prevOk, prevPruned, owed>>

\* after the loop over the values: if uvar.cur_domain_size() == 0: return False
FC_EndCons ==
    /\ pc = "FC_for_val"
    /\ todo = {}
    /\ IF cur_domain_size(FC_uvar(csp.cons[Head(cons)])) = 0
       THEN /\ pc' = "done"
            /\ ok' = FALSE
            /\ cons' = cons
       ELSE /\ pc' = "FC_for_c"
            /\ cons' = Tail(cons)
            /\ ok' = ok
    /\ UNCHANGED <<csp, curdom, assigned, prop, newVar, pruned, queue, w,
                   work, todo, s, pre, call, prevOk, prevPruned, owed>>

\* return True, pruned
FC_Return ==
    /\ pc = "FC_for_c"
    /\ cons = <<>>
    /\ pc' = "done"
    /\ ok' = TRUE
    /\ UNCHANGED <<csp, curdom, assigned, prop, newVar, pruned, queue, w,
                   work, cons, todo, s, pre, call, prevOk, prevPruned, owed>>

prop_FC == FC_NextCons \/ FC_Value \/ FC_EndCons \/ FC_Return

-----------------------------------------------------------------------------
(* prop_FI                                                                 *)

\* for v in c.get_scope(): if v == w: continue
FI_ScopeOthers(k, x) ==
    LET sc == get_scope(csp.cons[k]) IN
    [i \in 1 .. Len(SelectSeq(sc, LAMBDA v : v # x)) |->
        <<k, SelectSeq(sc, LAMBDA v : v # x)[i]>>]

\* the loop over the constraints left after the first one
FI_Revisions_First(ks, x) ==
    IF ks = <<>> THEN <<>> ELSE FI_ScopeOthers(Head(ks), x)

\* for c in csp.get_cons_with_var(w): for v in c.get_scope(): the
\* revisions <<constraint, v>> made for w, in the order they are made
RECURSIVE FI_Revisions(_, _)
FI_Revisions(ks, x) ==
    IF ks = <<>> THEN <<>>
    ELSE FI_ScopeOthers(Head(ks), x) \o FI_Revisions(Tail(ks), x)

\* the support of w's value asked for instead of v's
FI_NoSupport_OfW(c, v, d) == ~has_support(c, w, d)

\* if not c.has_support(v, d)
FI_NoSupport(c, v, d) == ~has_support(c, v, d)

\* the pair appended with the worklist variable instead of v
FI_Append_W(trace, v, d) == Append(trace, <<w, d>>)

\* pruned.append((v, d))
FI_Append(trace, v, d) == Append(trace, <<v, d>>)

\* the loop run over the whole domain instead of the current one
FI_Candidates_Static(v) == Dom

\* for d in v.cur_domain()
FI_Candidates(v) == cur_domain(v)

\* v never put back on the worklist
FI_MustEnqueue_Never(v, size, before, q) == FALSE

\* v put back on the worklist whether or not its size changed
FI_MustEnqueue_Always(v, size, before, q) == v \notin Range(q)

\* the sizes compared the wrong way round
FI_MustEnqueue_Grew(v, size, before, q) == size > before /\ v \notin Range(q)

\* v appended without the test that it is not in the worklist
FI_MustEnqueue_NoTest(v, size, before, q) == size # before

\* if v.cur_domain_size() != s and v not in queue
FI_MustEnqueue(v, size, before, q) == size # before /\ v \notin Range(q)

\* s = v.cur_domain_size() and the snapshot of v.cur_domain(), for the
\* first of the revisions rs; back to the while test when there is none
FI_Begin(x, rs) ==
    /\ work' = rs
    /\ IF rs = <<>>
       THEN /\ pc' = "FI_while"
            /\ todo' = {}
            /\ s' = 0
            /\ owed' = owed \ {x}
       ELSE /\ pc' = "FI_for_d"
            /\ todo' = FI_Candidates(rs[1][2])
            /\ s' = cur_domain_size(rs[1][2])
            /\ owed' = owed

\* while queue: w = queue.pop(0)
FI_Dequeue ==
    /\ pc = "FI_while"
    /\ queue # <<>>
    /\ w' = Head(queue)
    /\ queue' = Tail(queue)
    /\ FI_Begin(Head(queue),
                FI_Revisions(get_cons_with_var(Head(queue)), Head(queue)))
    /\ UNCHANGED <<csp, curdom, assigned, prop, newVar, ok, pruned, cons,
                   pre, call, prevOk, prevPruned>>

\* one iteration of the loop over v's values
FI_Value ==
    /\ pc = "FI_for_d"
    /\ \E d \in todo :
         LET c == csp.cons[work[1][1]]
             v == work[1][2]
         IN /\ todo' = todo \ {d}
            /\ IF FI_NoSupport(c, v, d)
               THEN /\ curdom' = prune_value(curdom, v, d)
                    /\ pruned' = FI_Append(pruned, v, d)
                    /\ owed' = owed \cup {v}
                    /\ IF Cardinality(curdom'[v]) = 0
                       THEN pc' = "done" /\ ok' = FALSE
                       ELSE UNCHANGED <<pc, ok>>
               ELSE UNCHANGED <<curdom, pruned, pc, ok, owed>>
    /\ UNCHANGED <<csp, assigned, prop, newVar, queue, w, work, cons, s,
                   pre, call, prevOk, prevPruned>>

\* after the loop over the values: enqueue v if its size changed, then go
\* on with the next v, the next c, or the while test
FI_EndRevise ==
    /\ pc = "FI_for_d"
    /\ todo = {}
    /\ LET v == work[1][2] IN
         queue' = IF FI_MustEnqueue(v, cur_domain_size(v), s, queue)
                  THEN Append(queue, v) ELSE queue
    /\ FI_Begin(w, Tail(work))
    /\ UNCHANGED <<csp, curdom, assigned, prop, newVar, ok, pruned, w, cons,
                   pre, call, prevOk, prevPruned>>

\* return True, pruned
FI_Return ==
    /\ pc = "FI_while"
    /\ queue = <<>>
    /\ pc' = "done"
    /\ ok' = TRUE
    /\ UNCHANGED <<csp, curdom, assigned, prop, newVar, pruned, queue, w,
                   work, cons, todo, s, pre, call, prevOk, prevPruned, owed>>

prop_FI == FI_Dequeue \/ FI_Value \/ FI_EndRevise \/ FI_Return

-----------------------------------------------------------------------------
(* A second call, as the driver or a test makes it                         *)

\* Locals of prop_FI at its entry, for a call that follows another one.
FI_Enter ==
    /\ prop' = "FI"
    /\ pc' = "FI_while"
    /\ ok' = TRUE
    /\ pruned' = <<>>
    /\ queue' = FI_Queue
    /\ cons' = <<>>
    /\ w' = None
    /\ work' = <<>>
    /\ todo' = {}
    /\ s' = 0
    /\ call' = 2
    /\ prevOk' = ok
    /\ prevPruned' = pruned
    /\ owed' = {}

\* prop_FC has returned: prop_FI is run from the state and with the
\* trigger prop_FC was called with.
Compare_FI ==
    /\ pc = "done"
    /\ prop = "FC"
    /\ call = 1
    /\ curdom' = pre
    /\ FI_Enter
    /\ UNCHANGED <<csp, assigned, newVar, pre>>

\* prop_FI has returned success: it is called again at once, with the same
\* trigger and nothing assigned or restored in between.
ReCall_FI ==
    /\ pc = "done"
    /\ prop = "FI"
    /\ call = 1
    /\ ok
    /\ pre' = curdom
    /\ FI_Enter
    /\ UNCHANGED <<csp, curdom, assigned, newVar>>

\* the same constraint with its scope, and its tuples, listed backwards
ReverseScope(c) ==
    [scope |-> Reverse(c.scope), sat |-> {Reverse(t) : t \in c.sat}]

\* the same CSP, its variables (rv), its constraints (rc) and the scopes
\* of its constraints (rs) listed backwards
Reordered(inst, rv, rc, rs) ==
    LET cs == IF rs THEN [i \in 1 .. Len(inst.cons) |-> ReverseScope(inst.cons[i])]
              ELSE inst.cons
    IN [vars |-> IF rv THEN Reverse(inst.vars) ELSE inst.vars,
        cons |-> IF rc THEN Reverse(cs) ELSE cs]

\* the orders tried: one list backwards, or all three
Reorderings ==
    {<<TRUE, FALSE, FALSE>>, <<FALSE, TRUE, FALSE>>, <<FALSE, FALSE, TRUE>>,
     <<TRUE, TRUE, TRUE>>}

\* the elements of a set listed in a fixed order
RECURSIVE Listed(_)
Listed(S) ==
    IF S = {} THEN <<>>
    ELSE LET x == CHOOSE y \in S : TRUE IN <<x>> \o Listed(S \ {x})

\* prop_FI has returned: it is run from the state and with the trigger it
\* was called with, on the same CSP whose variables, constraints and
\* scopes are listed in another order.  Of the first call the verdict and
\* the pairs of the trace are kept.
Reorder_FI ==
    /\ pc = "done"
    /\ prop = "FI"
    /\ call = 1
    /\ \E r \in Reorderings :
          /\ csp' = Reordered(csp, r[1], r[2], r[3])
          /\ queue' = IF newVar = None
                      THEN Reordered(csp, r[1], r[2], r[3]).vars
                      ELSE <<newVar>>
    /\ curdom' = pre
    /\ pc' = "FI_while"
    /\ ok' = TRUE
    /\ pruned' = <<>>
    /\ w' = None
    /\ work' = <<>>
    /\ todo' = {}
    /\ s' = 0
    /\ call' = 2
    /\ prevOk' = ok
    /\ prevPruned' = Listed(Range(pruned))
    /\ owed' = {}
    /\ UNCHANGED <<assigned, prop, newVar, cons, pre>>

-----------------------------------------------------------------------------
Next == prop_BT \/ prop_FC \/ prop_FI

Spec == Init /\ [][Next]_vars

\* A call runs to completion: no suspension, cancellation or timeout.
FairSpec == Init /\ [][Next]_vars /\ WF_vars(Next)

\* prop_FC, then prop_FI from the same state
InitCmp == PreState /\ Enter("FC")

NextCmp == prop_FC \/ Compare_FI \/ prop_FI

SpecCmp == InitCmp /\ [][NextCmp]_vars

\* prop_FI, then prop_FI again after a success
InitIdem == PreState /\ Enter("FI")

NextIdem == prop_FI \/ ReCall_FI

SpecIdem == InitIdem /\ [][NextIdem]_vars

\* prop_FI, then prop_FI from the same state with other visiting orders
InitOrder == PreState /\ Enter("FI")

NextOrder == prop_FI \/ Reorder_FI

SpecOrder == InitOrder /\ [][NextOrder]_vars

-----------------------------------------------------------------------------
(* Properties                                                              *)

\* Support of (v, d) in constraint c given the domains dom: a tuple of the
\* predicate with d at v's positions and a value of dom elsewhere.
Supported(c, v, d, dom) ==
    \E t \in Tuples(Len(c.scope)) :
        /\ t \in c.sat
        /\ \A i \in 1 .. Len(c.scope) :
              /\ c.scope[i] = v => t[i] = d
              /\ c.scope[i] # v => t[i] \in dom[c.scope[i]]

Constraints == Range(csp.cons)

ConstraintsOf(v) == {c \in Constraints : v \in Range(c.scope)}

Unassigned(c) == {x \in Range(c.scope) : assigned[x] = NoVal}

\* the tuple of c with d for v and the assigned values for the others
TupleWith(c, v, d) ==
    [i \in 1 .. Len(c.scope) |->
        IF c.scope[i] = v THEN d ELSE assigned[c.scope[i]]]

Done == pc = "done"

\* C1 - Soundness: every pair (v, d) a step of prop_FC or prop_FI removes
\* is inconsistent with a constraint in the state it is removed from: for
\* prop_FI a constraint containing v has no support for (v, d) in the
\* current domains, for prop_FC a constraint whose only unassigned
\* variable is v rejects the tuple of d and the assigned values.
C1_Soundness ==
    [][\A v \in VarSet : \A d \in curdom[v] \ curdom'[v] :
          /\ prop = "FI" =>
                \E c \in ConstraintsOf(v) : ~Supported(c, v, d, curdom)
          /\ prop = "FC" =>
                \E c \in ConstraintsOf(v) :
                    /\ Unassigned(c) = {v}
                    /\ TupleWith(c, v, d) \notin c.sat
          /\ prop \in {"FC", "FI"}]_vars

\* a call of prop_FI that removed values of two variables and succeeded
C1_Witness ==
    /\ Done /\ prop = "FI" /\ ok
    /\ \E i, j \in 1 .. Len(pruned) : pruned[i][1] # pruned[j][1]

\* C2 - GAC fixpoint: when prop_FI, called with no trigger, returns
\* success, every value left in every current domain has support in every
\* constraint whose scope contains the variable, whatever the scope's size.
C2_GACFixpoint ==
    (Done /\ prop = "FI" /\ newVar = None /\ ok) =>
        \A v \in VarSet : \A d \in curdom[v] : \A c \in ConstraintsOf(v) :
            Supported(c, v, d, curdom)

\* C3 - Monotonic strength: if prop_FC returns failure, prop_FI run from
\* the same state with the same trigger returns failure too.
C3_MonotonicStrength ==
    (Done /\ call = 2 /\ prop = "FI" /\ ~prevOk) => ~ok

\* restoring the pairs of a trace, first to last
RECURSIVE RestoreAll(_, _)
RestoreAll(dom, trace) ==
    IF trace = <<>> THEN dom
    ELSE RestoreAll(restore_value(dom, Head(trace)[1], Head(trace)[2]),
                    Tail(trace))

\* the pairs missing from the current domains since the call started
Removed == {p \in VarSet \X Dom : p[2] \in pre[p[1]] \ curdom[p[1]]}

\* C4 - Restoration round-trip: when prop_FC or prop_FI has returned,
\* success or failure, restoring the pairs of the trace (first to last or
\* last to first) gives the current domains of before the call, and the
\* trace holds exactly the pairs the call removed.
C4_RestorationRoundTrip ==
    (Done /\ prop \in {"FC", "FI"}) =>
        /\ RestoreAll(curdom, pruned) = pre
        /\ RestoreAll(curdom, Reverse(pruned)) = pre
        /\ Range(pruned) = Removed

\* a failed call of prop_FI that removed at least three values
C4_Witness ==
    Done /\ prop = "FI" /\ ~ok /\ Len(pruned) >= 3

\* C5 - Assigned value is never pruned: the value assigned to a variable
\* stays in the variable's current domain throughout every call.
C5_AssignedNeverPruned ==
    \A v \in VarSet : assigned[v] # NoVal => assigned[v] \in curdom[v]

\* C6 - Idempotence: prop_FI called again right after it returned success,
\* with the same trigger, removes nothing, leaves the current domains as
\* they were and returns success with an empty trace.
C6_Idempotence ==
    call = 2 =>
        /\ pruned = <<>>
        /\ curdom = pre
        /\ Done => ok

\* the second call has returned after a first call, with a trigger, that
\* removed values of two variables
C6_Witness ==
    /\ Done /\ call = 2 /\ newVar # None
    /\ \E i, j \in 1 .. Len(prevPruned) : prevPruned[i][1] # prevPruned[j][1]

\* C7 - Termination: every call returns.
C7_Termination == <>Done

\* a call of prop_FI has returned success after removing four values
C7_Witness ==
    Done /\ prop = "FI" /\ ok /\ Len(pruned) >= 4

\* C8 - No duplicate pruning: a pair appended to the trace is not in the
\* trace already, and its value is in the variable's current domain when
\* it is pruned.
C8_NoDuplicatePruning ==
    [][pruned' # pruned =>
          /\ Len(pruned') = Len(pruned) + 1
          /\ SubSeq(pruned', 1, Len(pruned)) = pruned
          /\ LET p == pruned'[Len(pruned')] IN
                /\ p \notin Range(pruned)
                /\ p[2] \in curdom[p[1]]
                /\ p[2] \notin curdom'[p[1]]]_vars

\* prop_FC has returned after two prunes of one variable
C8_Witness ==
    /\ Done /\ prop = "FC"
    /\ \E i, j \in 1 .. Len(pruned) : i # j /\ pruned[i][1] = pruned[j][1]

\* C9 - prop_BT verdict: success with no trigger; with trigger V, failure
\* if and only if a constraint whose scope contains V has every scope
\* variable assigned and rejects the tuple of the assigned values.
C9_BTVerdict ==
    (Done /\ prop = "BT") =>
        (~ok <=> /\ newVar # None
                 /\ \E c \in ConstraintsOf(newVar) :
                       /\ Unassigned(c) = {}
                       /\ TupleWith(c, newVar, assigned[newVar]) \notin c.sat)

\* prop_BT has returned failure
C9_Witness ==
    Done /\ prop = "BT" /\ ~ok /\ newVar # None

\* C10 - prop_BT frame: a call of prop_BT changes no current domain and no
\* assigned value, and its trace is empty.
C10_BTFrame ==
    [][prop = "BT" =>
          /\ curdom' = curdom
          /\ assigned' = assigned
          /\ pruned' = <<>>]_vars

\* prop_BT has returned success with a trigger whose constraints are all
\* fully assigned, in a state where some value is already pruned
C10_Witness ==
    /\ Done /\ prop = "BT" /\ ok /\ newVar # None
    /\ \A c \in ConstraintsOf(newVar) : Unassigned(c) = {}
    /\ \E v \in VarSet : curdom[v] # Dom

\* the constraints prop_FC is to look at: all of them with no trigger,
\* else those whose scope contains the trigger
Relevant ==
    IF newVar = None THEN Constraints ELSE ConstraintsOf(newVar)

\* the relevant constraints whose one unassigned variable is u
ForwardChecked(u) == {c \in Relevant : Unassigned(c) = {u}}

\* C11 - prop_FC postcondition: when prop_FC returns success, the values
\* removed from a variable U are exactly the values of its pre-call current
\* domain that some relevant constraint with U as its one unassigned
\* variable rejects (d at U's position, the assigned values elsewhere), so
\* every value left satisfies each such constraint.
C11_FCPostcondition ==
    (Done /\ prop = "FC" /\ ok) =>
        \A u \in VarSet :
            curdom[u] =
                {d \in pre[u] :
                    \A c \in ForwardChecked(u) : TupleWith(c, u, d) \in c.sat}

\* prop_FC has returned success, with a trigger, after removing a value
\* and leaving alone a constraint without the trigger
C11_Witness ==
    /\ Done /\ prop = "FC" /\ ok /\ newVar # None
    /\ pruned # <<>>
    /\ \E c \in Constraints \ Relevant : \E u \in VarSet :
          /\ Unassigned(c) = {u}
          /\ \E d \in curdom[u] : TupleWith(c, u, d) \notin c.sat

\* every variable's current domain was non-empty when the call started
NonEmptyPre == \A v \in VarSet : pre[v] # {}

SomeEmpty == \E v \in VarSet : curdom[v] = {}

\* C12 - Dead-end verdict: from non-empty current domains, prop_FC and
\* prop_FI return failure if and only if the call emptied a variable's
\* current domain (so on success every current domain is non-empty), and
\* once a current domain is empty no further value is removed.
C12_DeadEndVerdict ==
    /\ []((NonEmptyPre /\ prop \in {"FC", "FI"} /\ Done) => (~ok <=> SomeEmpty))
    /\ [][(NonEmptyPre /\ prop \in {"FC", "FI"} /\ SomeEmpty) =>
              curdom' = curdom]_vars

\* prop_FC, called with non-empty current domains, has returned failure
\* after removing values of two variables
C12_Witness ==
    /\ NonEmptyPre /\ Done /\ prop = "FC" /\ ~ok
    /\ \E i, j \in 1 .. Len(pruned) : pruned[i][1] # pruned[j][1]

\* the revision of v against a constraint is over (the loop over v's
\* values has ended)
RevisionEnds == prop = "FI" /\ pc = "FI_for_d" /\ todo = {}

\* C13 - Re-enqueue on change: when a revision of v that removed a value
\* and did not empty v is over, v is in the worklist; and when prop_FI
\* returns success, every variable that lost a value has been dequeued
\* after its last removal and has had all its constraints revised since.
C13_ReEnqueueOnChange ==
    /\ [][RevisionEnds =>
              LET v == work[1][2] IN
              (Cardinality(curdom[v]) < s /\ curdom[v] # {}) =>
                  v \in Range(queue')]_vars
    /\ []((prop = "FI" /\ Done /\ ok) => owed = {})

\* prop_FI has returned success after a variable lost a value, another
\* variable lost one, and the first variable lost one more
C13_Witness ==
    /\ prop = "FI" /\ Done /\ ok
    /\ \E i, j \in 1 .. Len(pruned) : i + 1 < j /\ pruned[i][1] = pruned[j][1]
          /\ pruned[i + 1][1] # pruned[i][1]

\* the current domains left by the first call
PrevDomains ==
    [v \in VarSet |-> pre[v] \ {d \in Dom : <<v, d>> \in Range(prevPruned)}]

\* C14 - Order independence: two executions of prop_FI from the same
\* state with the same trigger, whatever the order of the worklist
\* entries, constraints, scope variables and values, return the same
\* verdict, and when they succeed they end with the same current domains
\* and the same set of pruned pairs.
C14_OrderIndependence ==
    (Done /\ call = 2) =>
        /\ ok = prevOk
        /\ ok => /\ Range(pruned) = Range(prevPruned)
                 /\ curdom = PrevDomains

\* two successful executions, the second with the variables listed
\* backwards, that pruned at least three pairs of two variables
C14_Witness ==
    /\ Done /\ call = 2 /\ ok
    /\ csp.vars[1] # "X"
    /\ Len(prevPruned) >= 3
    /\ \E i, j \in 1 .. Len(pruned) : pruned[i][1] # pruned[j][1]

\* C15 - Worklist has no duplicates: at every point of a prop_FI call the
\* worklist holds each variable at most once, and the variable popped and
\* still being processed is not in it.
C15_WorklistNoDuplicates ==
    prop = "FI" =>
        /\ \A i, j \in 1 .. Len(queue) : queue[i] = queue[j] => i = j
        /\ pc = "FI_for_d" => w \notin Range(queue)

\* a call with a trigger is processing a variable while two variables that
\* lost values wait in the worklist
C15_Witness ==
    /\ prop = "FI" /\ pc = "FI_for_d" /\ newVar # None
    /\ Len(queue) >= 2

====
